---- MODULE Spec2Model ----
(***************************************************************************)
(* Model of src/app.py: the per-query scraper scrape_google_maps, the page *)
(* extractor extract_business_data, the batch loop of main and the email   *)
(* enrichment pass of main.  One step of the model is one fetch, one       *)
(* return into main, or one record of the enrichment loop.  Spec is one run *)
(* of the script; SpecSession is a browser session with several runs.      *)
(***************************************************************************)
EXTENDS Integers, Sequences, FiniteSets, TLC

\* ---------------------------------------------------------------- bounds
MaxRuns == 2        \* button clicks in one browser session
NumQueries == 2     \* len(valid_queries)
MaxCards == 1       \* business cards on one fetched page
max_results == 1    \* the "Max Results per Query" slider, scaled down

\* ------------------------------------------------------ program constants
MAX_RETRIES == 5
CAPTCHA_BYPASS_ATTEMPTS == 3

NA == "N/A"
NO_WEBSITE == "don't have website"
NoMatch == "<no match>"     \* find_element_with_fallback returned None
NoKey == "<no key>"         \* the dict has no 'Emails' key yet
Unbound == "<unbound>"      \* a local name that was never assigned

\* ------------------------------------------------------------ the inputs
\* A business card as the selectors see it: the text of the first matching
\* name / address element and the href of the first website link, or NoMatch.
GOOGLE_REDIRECT == "https://www.google.com/url?q=https://biz.example/"
DIRECT_URL == "https://biz.example/"

CardKinds ==
    { [name |-> "Acme", address |-> "1 Main St", href |-> GOOGLE_REDIRECT],
      [name |-> NoMatch, address |-> NoMatch, href |-> NoMatch] }

RECURSIVE SeqsUpTo(_, _)
SeqsUpTo(S, n) ==
    IF n = 0 THEN { <<>> }
    ELSE LET shorter == SeqsUpTo(S, n - 1)
         IN  shorter \cup { Append(s, x) : s \in { t \in shorter : Len(t) = n - 1 }, x \in S }

Pages == SeqsUpTo(CardKinds, MaxCards)

\* The phrases a response body contains (as written in the body).
Bodies == { {}, {"Sorry"} }
Statuses == { 200, 204, 429 }
Hints == { NoMatch, "12 results" }

Responses ==
    [ status : Statuses, body : Bodies, cards : Pages, count : Hints ]

\* What session.get / requests.get can do instead of returning a response.
RequestException == "RequestException"
OtherException == "Exception"

\* -------------------------------------------------------- pure functions
\* str.lower() on the phrases of Bodies
Lower(s) == IF s = "Sorry" THEN "sorry" ELSE s

captcha_indicators == { "captcha", "denied", "sorry", "automated", "robot" }

handle_captcha(response) ==
    \E phrase \in response.body : Lower(phrase) \in captcha_indicators

resolve_google_redirect(url) ==
    IF url = GOOGLE_REDIRECT THEN DIRECT_URL ELSE url

\* The record built from one card (the body of the for loop).
CardRecord(card) ==
    [ name    |-> IF card.name = NoMatch THEN NA ELSE card.name,
      address |-> IF card.address = NoMatch THEN NA ELSE card.address,
      website |-> resolve_google_redirect(
                      IF card.href = NoMatch THEN NO_WEBSITE ELSE card.href),
      emails  |-> NoKey ]

\* a variant that drops the cards without a name
extract_business_data_dropping(cards) ==
    LET named == SelectSeq(cards, LAMBDA c : c.name # NoMatch)
    IN  [ i \in 1..Len(named) |-> CardRecord(named[i]) ]

extract_business_data(cards) ==
    [ i \in 1..Len(cards) |-> CardRecord(cards[i]) ]

get_result_count(response) ==
    IF response.count = NoMatch THEN 0 ELSE 12

Take(s, n) == IF Len(s) <= n THEN s ELSE SubSeq(s, 1, n)

\* `except Exception` (lines 331, 336, 506) and the bare `except:` (line 119):
\* the exception classes the handler catches.
\* a variant that catches the request errors only
ExceptionCaught_requests_only(exc) == exc = RequestException

ExceptionCaught(exc) ==
    exc \in { RequestException, OtherException, "UnboundLocalError" }

\* a variant that tests the status before the body
Classify_status_first(response) ==
    IF response.status # 200 THEN "HttpError"
    ELSE IF handle_captcha(response) THEN "Blocked"
    ELSE "Success"

\* lines 281-291: the CAPTCHA test comes first, then the status test.
Classify(response) ==
    IF handle_captcha(response) THEN "Blocked"
    ELSE IF response.status # 200 THEN "HttpError"
    ELSE "Success"

\* line 272
LoopGuard(r, c) == r < MAX_RETRIES /\ c < CAPTCHA_BYPASS_ATTEMPTS

\* a variant that moves the cursor on
CursorAfterBlocked_advancing(cursor) == cursor + 1

\* lines 282-284: `continue` re-enters the loop with params untouched.
CursorAfterBlocked(cursor) == cursor

\* a variant that forgets the reset
RetriesAfterSuccess_kept(r) == r

\* line 304 (captcha_retries is not assigned on the success path)
RetriesAfterSuccess(r) == 0
CaptchaRetriesAfterSuccess(c) == c

\* the dedup key: name and address, or name and website without an address
Key(b) ==
    IF b.address # NA THEN << b.name, b.address >> ELSE << b.name, b.website >>

\* a variant that drops a record whose key the collection already holds
RECURSIVE Merge_dedup(_, _)
Merge_dedup(data, results) ==
    IF results = <<>> THEN data
    ELSE LET b == Head(results)
             seen == \E i \in DOMAIN data : Key(data[i]) = Key(b)
         IN  Merge_dedup(IF seen THEN data ELSE Append(data, b), Tail(results))

\* line 511: all_data.extend(results)
Merge(data, results) == data \o results

\* a variant without the attempt loop
MoreAttempts_none(a) == FALSE

\* line 498: `for attempt in range(MAX_RETRIES)` has another iteration
MoreAttempts(a) == a + 1 < MAX_RETRIES

\* a variant that paginates whatever the first page held
ShouldPaginate_always(page) == TRUE

\* line 313
ShouldPaginate(page) == page # <<>>

\* a variant that asks for the first page again
ScrollStart_zero(results) == 0

\* line 315: scroll_params = {'q': query, 'start': len(all_results)}
ScrollStart(results) == Len(results)

\* a variant that loses the first page when the pagination request fails
PaginationFallback_empty(results) == <<>>

\* lines 325-334: a pagination request that was blocked, got another status
\* than 200 or raised is passed over; `return all_results` follows.
PaginationFallback(results) == results

\* lines 283, 289, 310: the outcomes of a fetch after which the retry loop
\* calls time.sleep before its next iteration.  No other path from a fetch to
\* the next fetch of the same query holds a time.sleep: not the Success path
\* (lines 292-323), not the return to main's attempt loop (lines 501-505).
DelayAfter(class) == class \in { "Blocked", "HttpError", RequestException }

\* ------------------------------------------------------------- the state
VARIABLES
    pc,              \* "idle" | "loop" | "page" | "return" | "enrich" | "crashed"
    run,             \* runs started so far in this browser session
    enable_email,    \* the sidebar checkbox, read at the start of a run
    all_data,        \* st.session_state.all_data
    qi,              \* index of the query main is processing
    attempt,         \* main's `attempt` (0-based)
    params_start,    \* the 'start' of the request params (0: no 'start' key)
    all_results,     \* scrape_google_maps locals
    retries,
    captcha_retries,
    result_count,
    page_results,
    ret,             \* the value scrape_google_maps returns to main
    ei,              \* index of the enrichment loop (1-based)
    \* history variables, read only by the properties
    lastFetch,       \* the last fetch of the current call of scrape_google_maps
    sessFetches,     \* fetches issued by the current call
    term,            \* how the call that has just returned ended
    afterEmpty,      \* fetches for the current query since its first empty page
    dispatched,      \* the queries of this run handed to scrape_google_maps
    lastCards,       \* the cards of the last page extracted, and the result
    lastExtract,
    lastEnrich,      \* what the last enrichment step did
    delayed          \* a time.sleep has run since the last fetch of this query

vars == << pc, run, enable_email, all_data, qi, attempt, params_start,
           all_results, retries, captcha_retries, result_count, page_results,
           ret, ei, lastFetch, sessFetches, term, afterEmpty, dispatched,
           lastCards, lastExtract, lastEnrich, delayed >>

mainVars == << run, enable_email, all_data, qi, attempt, ei, dispatched, lastEnrich >>

NoFetch == [ start |-> 0, class |-> "none", status |-> 0, indicator |-> FALSE ]
NoEnrich == [ fetched |-> FALSE, failed |-> FALSE ]

\* afterEmpty counts up to this cap only (the property asks about "more than one").
AfterEmptyCap == 2

Bump(n) == IF n < 0 THEN n ELSE IF n < AfterEmptyCap THEN n + 1 ELSE n

\* the same, for a fetch that returned a page with these records
BumpOnPage(n, page) ==
    IF n < 0 THEN (IF page = <<>> THEN 0 ELSE n) ELSE Bump(n)

Init ==
    /\ pc = "idle"
    /\ run = 0
    /\ enable_email = FALSE
    /\ all_data = <<>>
    /\ qi = 0
    /\ attempt = 0
    /\ params_start = 0
    /\ all_results = <<>>
    /\ retries = 0
    /\ captcha_retries = 0
    /\ result_count = 0
    /\ page_results = Unbound
    /\ ret = <<>>
    /\ ei = 0
    /\ lastFetch = NoFetch
    /\ sessFetches = 0
    /\ term = "none"
    /\ afterEmpty = -1
    /\ dispatched = {}
    /\ lastCards = <<>>
    /\ lastExtract = <<>>
    /\ lastEnrich = NoEnrich
    /\ delayed = FALSE

\* lines 263-268: the locals of a fresh call of scrape_google_maps
ScrapeInit ==
    /\ pc' = "loop"
    /\ params_start' = 0
    /\ all_results' = <<>>
    /\ retries' = 0
    /\ captcha_retries' = 0
    /\ result_count' = 0
    /\ page_results' = Unbound
    /\ ret' = <<>>
    /\ lastFetch' = NoFetch
    /\ sessFetches' = 0
    /\ term' = "none"
    /\ lastCards' = <<>>
    /\ lastExtract' = <<>>

\* The call is over: its locals are gone, `value` goes to the caller.
Return(value, how) ==
    /\ pc' = "return"
    /\ ret' = value
    /\ term' = how
    /\ params_start' = 0
    /\ all_results' = <<>>
    /\ retries' = 0
    /\ captcha_retries' = 0
    /\ result_count' = 0
    /\ page_results' = Unbound

\* An exception that reaches the handler of lines 336-338 makes the call return
\* []; one it does not catch reaches main's handler (lines 506-508), of the same
\* kind, and ends the script run.
Raise(exc, how) ==
    IF ExceptionCaught(exc)
    THEN Return(<<>>, how)
    ELSE /\ pc' = "crashed"
         /\ term' = "Fault"
         /\ UNCHANGED << ret, params_start, all_results, retries, captcha_retries,
                         result_count, page_results >>

\* lines 466-501: the button is clicked; the first query is handed over.  The
\* collection of st.session_state is taken as it is (lines 472-477).
RunFromButton ==
    /\ run' = run + 1
    /\ enable_email' \in BOOLEAN
    /\ all_data' = all_data
    /\ qi' = 1
    /\ attempt' = 0
    /\ ei' = 0
    /\ dispatched' = { 1 }
    /\ afterEmpty' = -1
    /\ lastEnrich' = NoEnrich
    /\ delayed' = FALSE
    /\ ScrapeInit

\* the first click in a fresh browser session
StartRun ==
    /\ pc = "idle"
    /\ run = 0
    /\ RunFromButton

\* a later click in the same browser session, after the earlier run is over
StartAgain ==
    /\ pc \in { "idle", "crashed" }
    /\ run \in 1..(MaxRuns - 1)
    /\ RunFromButton

\* lines 274-279 raise a requests.exceptions.RequestException (lines 307-310)
FetchRaisesRequestException ==
    /\ pc = "loop"
    /\ LoopGuard(retries, captcha_retries)
    /\ lastFetch' = [ start |-> params_start, class |-> RequestException,
                      status |-> 0, indicator |-> FALSE ]
    /\ retries' = retries + 1
    /\ delayed' = DelayAfter(RequestException)      \* line 310
    /\ sessFetches' = sessFetches + 1
    /\ afterEmpty' = Bump(afterEmpty)
    /\ UNCHANGED << mainVars, pc, ret, term, params_start, all_results,
                    captcha_retries, result_count, page_results, lastCards,
                    lastExtract >>

\* lines 274-295 raise anything else: the handler of lines 336-338
FetchRaisesOther ==
    /\ pc = "loop"
    /\ LoopGuard(retries, captcha_retries)
    /\ lastFetch' = [ start |-> params_start, class |-> OtherException,
                      status |-> 0, indicator |-> FALSE ]
    /\ Raise(OtherException, "Fault")
    /\ delayed' = DelayAfter(OtherException)
    /\ sessFetches' = sessFetches + 1
    /\ afterEmpty' = Bump(afterEmpty)
    /\ UNCHANGED << mainVars, lastCards, lastExtract >>

\* lines 274-305: a response arrives in the retry loop
FetchResponds ==
    /\ pc = "loop"
    /\ LoopGuard(retries, captcha_retries)
    /\ \E response \in Responses :
        LET class == Classify(response) IN
        /\ lastFetch' = [ start |-> params_start, class |-> class,
                          status |-> response.status,
                          indicator |-> handle_captcha(response) ]
        /\ delayed' = DelayAfter(class)             \* lines 283, 289
        /\ CASE class = "Blocked" ->
                  /\ captcha_retries' = captcha_retries + 1
                  /\ params_start' = CursorAfterBlocked(params_start)
                  /\ afterEmpty' = Bump(afterEmpty)
                  /\ UNCHANGED << pc, retries, all_results, result_count,
                                  page_results, lastCards, lastExtract >>
             [] class = "HttpError" ->
                  /\ retries' = retries + 1
                  /\ afterEmpty' = Bump(afterEmpty)
                  /\ UNCHANGED << pc, captcha_retries, params_start, all_results,
                                  result_count, page_results, lastCards, lastExtract >>
             [] class = "Success" ->
                  LET page == extract_business_data(response.cards) IN
                  /\ page_results' = page
                  /\ all_results' = all_results \o page
                  /\ result_count' = get_result_count(response)
                  /\ retries' = RetriesAfterSuccess(retries)
                  /\ captcha_retries' = CaptchaRetriesAfterSuccess(captcha_retries)
                  /\ pc' = "page"
                  /\ lastCards' = response.cards
                  /\ lastExtract' = page
                  /\ afterEmpty' = BumpOnPage(afterEmpty, page)
                  /\ UNCHANGED params_start
    /\ sessFetches' = sessFetches + 1
    /\ UNCHANGED << mainVars, ret, term >>

\* line 272 is false: the loop ends without a break; line 313 then reads
\* page_results, which no iteration assigned.
LoopExit ==
    /\ pc = "loop"
    /\ ~ LoopGuard(retries, captcha_retries)
    /\ IF page_results = Unbound
       THEN Raise("UnboundLocalError", "Aborted")
       ELSE /\ pc' = "page"
            /\ UNCHANGED << ret, term, params_start, all_results, retries,
                            captcha_retries, result_count, page_results >>
    /\ UNCHANGED << mainVars, lastFetch, sessFetches, afterEmpty, lastCards,
                    lastExtract, delayed >>

\* lines 313, 334: the first page was empty; no pagination request
SkipPagination ==
    /\ pc = "page"
    /\ ~ ShouldPaginate(page_results)
    /\ Return(all_results, "Done")
    /\ UNCHANGED << mainVars, lastFetch, sessFetches, afterEmpty, lastCards,
                    lastExtract, delayed >>

\* lines 313-334: the one pagination request, start = len(all_results), raises
PaginationRaises ==
    /\ pc = "page"
    /\ ShouldPaginate(page_results)
    /\ \E exc \in { RequestException, OtherException } :
        /\ lastFetch' = [ start |-> ScrollStart(all_results), class |-> exc,
                          status |-> 0, indicator |-> FALSE ]
        /\ IF ExceptionCaught(exc)
           THEN Return(PaginationFallback(all_results), "Done")   \* lines 331-334
           ELSE Raise(exc, "Fault")
    /\ delayed' = FALSE                     \* lines 318-334 hold no time.sleep
    /\ sessFetches' = sessFetches + 1
    /\ afterEmpty' = Bump(afterEmpty)
    /\ UNCHANGED << mainVars, lastCards, lastExtract >>

\* lines 313-334: the pagination request gets a response
PaginationResponds ==
    /\ pc = "page"
    /\ ShouldPaginate(page_results)
    /\ \E response \in Responses :
        LET class == Classify(response)
            additional_results == extract_business_data(response.cards)
        IN
        /\ lastFetch' = [ start |-> ScrollStart(all_results), class |-> class,
                          status |-> response.status,
                          indicator |-> handle_captcha(response) ]
        /\ IF class = "Success"
           THEN /\ Return(all_results \o additional_results, "Done")
                /\ lastCards' = response.cards
                /\ lastExtract' = additional_results
                /\ afterEmpty' = BumpOnPage(afterEmpty, additional_results)
           ELSE /\ Return(PaginationFallback(all_results), "Done")
                /\ UNCHANGED << lastCards, lastExtract >>
                /\ afterEmpty' = Bump(afterEmpty)
    /\ delayed' = FALSE                     \* lines 318-334 hold no time.sleep
    /\ sessFetches' = sessFetches + 1
    /\ UNCHANGED mainVars

\* lines 534-558 after the last query: the enrichment pass, or the end of the run
EndOfQueries(data) ==
    /\ IF enable_email /\ data # <<>>
       THEN pc' = "enrich" /\ ei' = 1
       ELSE pc' = "idle" /\ ei' = 0
    /\ ret' = <<>>
    /\ term' = "none"
    /\ lastFetch' = NoFetch
    /\ sessFetches' = 0
    /\ lastCards' = <<>>
    /\ lastExtract' = <<>>
    /\ UNCHANGED << params_start, all_results, retries, captcha_retries,
                    result_count, page_results >>

\* lines 510-532: the for loop over the attempts is over with `results`; the
\* query ends with time.sleep(request_delay) (line 532)
AfterAttempts(results) ==
    LET data == IF results # <<>> THEN Merge(all_data, results) ELSE all_data IN
    /\ all_data' = data
    /\ delayed' = TRUE
    /\ IF qi < NumQueries
       THEN /\ qi' = qi + 1
            /\ attempt' = 0
            /\ dispatched' = dispatched \cup { qi + 1 }
            /\ afterEmpty' = -1
            /\ ei' = ei
            /\ ScrapeInit
       ELSE /\ EndOfQueries(data)
            /\ afterEmpty' = -1
            /\ UNCHANGED << qi, attempt, dispatched >>

\* lines 498-508: scrape_google_maps has returned `ret` to the attempt loop
MainReturn ==
    /\ pc = "return"
    /\ IF ret # <<>>
       THEN \* lines 502-505
            AfterAttempts(Take(ret, max_results))
       ELSE IF MoreAttempts(attempt)
            THEN \* the next iteration of `for attempt in range(MAX_RETRIES)`
                 /\ attempt' = attempt + 1
                 /\ ScrapeInit
                 \* (the time.sleep of line 508 is in the except branch only)
                 /\ UNCHANGED << all_data, qi, ei, dispatched, afterEmpty, delayed >>
            ELSE AfterAttempts(<<>>)
    /\ UNCHANGED << run, enable_email, lastEnrich >>

\* ------------------------------------------------------- email enrichment
\* What requests.get(resolved_url, timeout=10) does: raises, or returns a
\* status and a text in which the pattern finds these addresses, in order.
EMAIL == "info@biz.example"
SecondaryOutcomes ==
    { [ raised |-> TRUE, status |-> 0, found |-> <<>> ] } \cup
    [ raised : { FALSE }, status : { 200, 404 },
      found : { <<>>, << EMAIL >>, << EMAIL, EMAIL >> } ]

\* list(set(emails)) for the lists above
Unique(found) == IF found = <<>> THEN <<>> ELSE << found[1] >>

\* ", ".join(emails) for the lists above
Join(emails) == emails[1]

\* a variant without the status test of lines 112-113
extract_emails_from_website_any_status(url, outcome) ==
    IF url = "" \/ url = NO_WEBSITE THEN <<>>
    ELSE IF outcome.raised THEN <<>>
    ELSE Take(Unique(outcome.found), 3)

\* lines 99-120
extract_emails_from_website(url, outcome) ==
    IF url = "" \/ url = NO_WEBSITE THEN <<>>
    ELSE IF outcome.raised THEN <<>>
    ELSE IF outcome.status # 200 THEN <<>>
    ELSE Take(Unique(outcome.found), 3)

\* line 546
HasWebsite(business) == business.website # "" /\ business.website # NO_WEBSITE

\* lines 545-558: one iteration of the enrichment loop
Enrich ==
    /\ pc = "enrich"
    /\ ei \in 1..Len(all_data)
    /\ LET business == all_data[ei] IN
       IF HasWebsite(business)
       THEN \E outcome \in SecondaryOutcomes :
              LET emails == extract_emails_from_website(business.website, outcome) IN
              /\ all_data' = [ all_data EXCEPT ![ei].emails =
                                 IF emails # <<>> THEN Join(emails) ELSE NA ]
              /\ lastEnrich' = [ fetched |-> TRUE,
                                 failed |-> outcome.raised \/ outcome.status # 200 ]
       ELSE /\ all_data' = [ all_data EXCEPT ![ei].emails = NA ]
            /\ lastEnrich' = [ fetched |-> FALSE, failed |-> FALSE ]
    /\ ei' = ei + 1
    /\ pc' = IF ei = Len(all_data) THEN "idle" ELSE "enrich"
    /\ UNCHANGED << run, enable_email, qi, attempt, dispatched, params_start,
                    all_results, retries, captcha_retries, result_count,
                    page_results, ret, lastFetch, sessFetches, term, afterEmpty,
                    lastCards, lastExtract, delayed >>

Next ==
    \/ StartRun
    \/ FetchRaisesRequestException
    \/ FetchRaisesOther
    \/ FetchResponds
    \/ LoopExit
    \/ SkipPagination
    \/ PaginationRaises
    \/ PaginationResponds
    \/ MainReturn
    \/ Enrich

\* one run of the script in a fresh browser session
Spec == Init /\ [][Next]_vars

\* a browser session with up to MaxRuns runs
NextSession == Next \/ StartAgain

SpecSession == Init /\ [][NextSession]_vars

TypeOK ==
    /\ pc \in { "idle", "loop", "page", "return", "enrich", "crashed" }
    /\ run \in 0..MaxRuns
    /\ retries \in 0..MAX_RETRIES
    /\ captcha_retries \in 0..CAPTCHA_BYPASS_ATTEMPTS
    /\ attempt \in 0..(MAX_RETRIES - 1)

\* ------------------------------------------------------------ properties
\* a step that issues a fetch
FetchStep == sessFetches' = sessFetches + 1

\* the records the current call has accumulated (returned, once it is over)
Accumulated == IF pc = "return" THEN ret ELSE all_results

\* a record without the field only the enrichment pass writes
Core(b) == [ name |-> b.name, address |-> b.address, website |-> b.website ]

ResponseClasses == { "Blocked", "HttpError", "Success" }

\* C1: within a call of scrape_google_maps, the fetch issued right after a
\* Blocked outcome targets the same cursor as the blocked fetch, and a blocked
\* attempt appends no record.
C1_BlockedKeepsCursor ==
    [][ /\ (FetchStep /\ lastFetch.class = "Blocked")
            => lastFetch'.start = lastFetch.start
        /\ (FetchStep /\ lastFetch'.class = "Blocked")
            => (Accumulated' = Accumulated /\ all_data' = all_data) ]_vars

\* Blocked twice, then Success on the same cursor.
C1_Witness ==
    /\ pc = "page"
    /\ captcha_retries = 2
    /\ lastFetch.class = "Success"
    /\ lastFetch.start = 0

\* C2 as stated: a card without a name yields no record, and no record with the
\* placeholder name appears in an extracted page or in the result collection.
C2_NoPlaceholderName ==
    /\ Len(lastExtract) = Len(SelectSeq(lastCards, LAMBDA c : c.name # NoMatch))
    /\ \A i \in DOMAIN lastExtract : lastExtract[i].name # NA
    /\ \A i \in DOMAIN all_data : all_data[i].name # NA

\* C2 as amended: every card yields exactly one record, in order; a card
\* without a name yields a record whose name is the placeholder "N/A".
C2_PlaceholderName ==
    /\ Len(lastExtract) = Len(lastCards)
    /\ \A i \in DOMAIN lastCards :
         lastExtract[i].name =
            IF lastCards[i].name = NoMatch THEN NA ELSE lastCards[i].name

C2_Witness ==
    \E i \in DOMAIN lastCards :
        /\ lastCards[i].name = NoMatch
        /\ lastExtract[i].name = NA

\* C3 as stated: no two records of the result collection share a dedup key.
C3_UniqueKeys ==
    \A i, j \in DOMAIN all_data : i # j => Key(all_data[i]) # Key(all_data[j])

\* C3 as amended: the merge drops nothing: the records a call returned, cut
\* to max_results, are appended in order to the result collection, whose
\* earlier records stay in place, whether or not a key is already present.
C3_MergeAppends ==
    [][ pc = "return"
          => all_data' = all_data \o Take(ret, max_results) ]_vars

\* Two records of the result collection share a key.
C3_Witness ==
    \E i, j \in DOMAIN all_data : i < j /\ Key(all_data[i]) = Key(all_data[j])

\* C4 as stated: after a query received a page with zero records, at most one
\* further fetch is issued for that query.
C4_OneFetchAfterEmptyPage == afterEmpty <= 1

\* the last fetch of the call returned a page with zero records
EmptyPageInCall == lastFetch.class = "Success" /\ lastExtract = <<>>

\* C4 as amended: a call that receives a page with zero records issues no
\* further fetch; each call issues at most MAX_RETRIES + CAPTCHA_BYPASS_ATTEMPTS
\* fetches and a query gets at most MAX_RETRIES calls, so every call and every
\* query ends, but main calls again for a query whose call returned nothing.
C4_BoundedFetches ==
    [][ /\ FetchStep => ~ EmptyPageInCall
        /\ sessFetches' <= MAX_RETRIES + CAPTCHA_BYPASS_ATTEMPTS
        /\ attempt' < MAX_RETRIES ]_vars

\* An empty first page ended the call, and main is about to call again.
C4_Witness ==
    /\ pc = "return"
    /\ term = "Done"
    /\ ret = <<>>
    /\ EmptyPageInCall
    /\ attempt + 1 < MAX_RETRIES

\* C5 as stated: a call that ran out of a budget is the end of its query: the
\* query is not fetched again, and what main receives differs from the [] of
\* a call that completed with zero records.
C5_AbortedIsTerminal ==
    [][ (pc = "return" /\ term = "Aborted")
          => /\ ret # <<>>
             /\ ~ (pc' = "loop" /\ qi' = qi /\ run' = run) ]_vars

\* C5 as amended: a call that ran out of a budget returns [] to main, as a
\* call that completed with zero records does, and no exception reaches main;
\* main calls again for the same query until MAX_RETRIES calls have returned
\* nothing, and only then leaves the query, merging nothing for it.
C5_AbortedIsRetried ==
    [][ (pc = "return" /\ term = "Aborted")
          => /\ ret = <<>>
             /\ pc' # "crashed"
             /\ all_data' = all_data
             /\ attempt + 1 < MAX_RETRIES
                   => (pc' = "loop" /\ qi' = qi /\ attempt' = attempt + 1)
             /\ attempt + 1 = MAX_RETRIES
                   => ~ (pc' = "loop" /\ qi' = qi) ]_vars

\* The last of the MAX_RETRIES calls for a query ran out of a budget.
C5_Witness ==
    /\ pc = "return"
    /\ term = "Aborted"
    /\ attempt = MAX_RETRIES - 1

\* C6: whatever happens in one query's calls, the script run is not aborted,
\* the records already merged stay as they are, and at the end of the queries
\* every query of the batch has been dispatched.
C6_FailureContained ==
    [][ /\ pc' # "crashed"
        /\ Len(all_data) <= Len(all_data')
        /\ \A i \in DOMAIN all_data : Core(all_data'[i]) = Core(all_data[i])
        /\ (pc = "return" /\ pc' \in { "enrich", "idle" })
              => dispatched' = 1..NumQueries ]_vars

\* The second query's call ended by an exception after the first query's
\* records were merged.
C6_Witness ==
    /\ pc = "return"
    /\ term \in { "Fault", "Aborted" }
    /\ qi = NumQueries
    /\ qi > 1
    /\ all_data # <<>>

\* C7: at the end of a run the result collection holds at most the sum of the
\* per-query caps of that run's queries.
C7_TotalWithinCaps ==
    (pc \in { "enrich", "idle" } /\ run > 0)
        => Len(all_data) <= NumQueries * max_results

\* C8: an enrichment step fetches nothing for a record without a website; a
\* failed secondary fetch leaves the record's email absent; no step changes
\* another field or another record, and the pass goes on to the next record.
C8_EnrichmentContained ==
    [][ (pc = "enrich" /\ ei' = ei + 1)
          => /\ all_data[ei].website = NO_WEBSITE => ~ lastEnrich'.fetched
             /\ (lastEnrich'.fetched /\ lastEnrich'.failed)
                   => all_data'[ei].emails = NA
             /\ ~ lastEnrich'.fetched => all_data'[ei].emails = NA
             /\ Len(all_data') = Len(all_data)
             /\ \A j \in DOMAIN all_data :
                   /\ Core(all_data'[j]) = Core(all_data[j])
                   /\ j # ei => all_data'[j] = all_data[j]
             /\ pc' = IF ei < Len(all_data) THEN "enrich" ELSE "idle" ]_vars

\* A secondary fetch failed and the pass is at the next record.
C8_Witness ==
    /\ pc = "enrich"
    /\ ei > 1
    /\ lastEnrich.fetched
    /\ lastEnrich.failed
    /\ all_data[ei - 1].emails = NA

\* C9 as stated: a non-2xx response is an HttpError whatever its body; Blocked
\* is exactly a 2xx response with an indicator; any other 2xx is a Success.
C9_StatusBeforeBody ==
    lastFetch.class \in ResponseClasses =>
        LET ok2xx == lastFetch.status \in 200..299 IN
        /\ ~ ok2xx => lastFetch.class = "HttpError"
        /\ lastFetch.class = "Blocked" <=> (ok2xx /\ lastFetch.indicator)
        /\ (ok2xx /\ ~ lastFetch.indicator) => lastFetch.class = "Success"

\* C9 as amended: a response whose body holds an indicator is Blocked whatever
\* its status; without one, a status other than 200 is an HttpError, and a 200
\* is a Success.  In the retry loop a Blocked response counts against the
\* CAPTCHA budget only and an HttpError against the retry budget only.
C9_BodyBeforeStatus ==
    [][ (FetchStep /\ lastFetch'.class \in ResponseClasses)
          => /\ lastFetch'.class =
                   IF lastFetch'.indicator THEN "Blocked"
                   ELSE IF lastFetch'.status # 200 THEN "HttpError"
                   ELSE "Success"
             /\ (pc = "loop" /\ lastFetch'.class = "Blocked")
                   => /\ captcha_retries' = captcha_retries + 1
                      /\ retries' = retries
                      /\ pc' = "loop"
             /\ (pc = "loop" /\ lastFetch'.class = "HttpError")
                   => /\ retries' = retries + 1
                      /\ captcha_retries' = captcha_retries
                      /\ pc' = "loop"
             /\ (pc = "loop" /\ lastFetch'.class = "Success") => pc' = "page" ]_vars

\* A response with a non-2xx status and an indicator was counted as Blocked.
C9_Witness ==
    /\ pc = "loop"
    /\ lastFetch.class = "Blocked"
    /\ lastFetch.status = 429
    /\ captcha_retries = 1
    /\ retries = 0

\* C10 as stated: after a Success both counters are zero.
C10_BothCountersReset ==
    pc = "page" => (retries = 0 /\ captcha_retries = 0)

\* C10 as amended: the Success of the retry loop sets retries to zero and
\* leaves captcha_retries as it was.
C10_RetriesReset ==
    [][ (pc = "loop" /\ pc' = "page")
          => /\ retries' = 0
             /\ captcha_retries' = captcha_retries ]_vars

\* A Success after failures of both kinds.
C10_Witness ==
    /\ pc = "page"
    /\ captcha_retries > 0
    /\ sessFetches > captcha_retries + 1
    /\ retries = 0

\* more results are indicated: the total-result hint exceeds the records
\* collected so far, or there is no hint and the page held records
MoreIndicated(hint, collected, page) ==
    IF hint > 0 THEN hint > Len(collected) ELSE page # <<>>

\* C11 as stated: after a Success page the next page is fetched, at the
\* advanced cursor, as long as more results are indicated, the page held
\* records and max_results is not reached; a call that has just extracted a
\* page ends only when one of these fails, and no fetch follows once
\* max_results records are collected.
C11_PaginatesUntilCap ==
    [][ /\ (pc = "page" /\ FetchStep) => Len(all_results) < max_results
        /\ ( /\ pc = "page"
             /\ MoreIndicated(result_count, all_results, page_results)
             /\ page_results # <<>>
             /\ Len(all_results) < max_results )
              => (FetchStep /\ lastFetch'.start = Len(all_results))
        /\ ( /\ pc = "page" /\ FetchStep /\ pc' = "return"
             /\ lastFetch'.class = "Success" )
              => ~ ( /\ MoreIndicated(result_count, ret', lastExtract')
                     /\ lastExtract' # <<>>
                     /\ Len(ret') < max_results ) ]_vars

\* C11 as amended: after the Success page of the retry loop the call issues
\* exactly one more fetch, at start = len(all_results), if and only if that
\* page held a record, whatever the total-result hint and whatever
\* max_results; whatever that fetch brings, the call then returns, so a call
\* reads at most two pages; a Success page of the second fetch is appended
\* whole, and max_results is applied by main to the returned list only.
C11_OnePaginationFetch ==
    [][ pc = "page"
          => /\ FetchStep <=> page_results # <<>>
             /\ FetchStep => lastFetch'.start = Len(all_results)
             /\ pc' = "return" /\ term' = "Done"
             /\ (FetchStep /\ lastFetch'.class = "Success")
                   => ret' = all_results \o lastExtract'
             /\ ~ FetchStep => ret' = all_results ]_vars

\* The pagination fetch was issued with max_results records already collected,
\* and the call ended after a second page that held a record.
C11_Witness ==
    /\ pc = "return"
    /\ term = "Done"
    /\ lastFetch.class = "Success"
    /\ lastFetch.start >= max_results
    /\ lastExtract # <<>>
    /\ Len(ret) = lastFetch.start + Len(lastExtract)

\* a fetch has already been issued for the current query (every call issues
\* at least one fetch, so a later attempt has fetches behind it)
FetchedBefore == sessFetches > 0 \/ attempt > 0

\* C12: for a single query, every fetch after the first is preceded by a
\* delay: a time.sleep has run since the fetch before it.
C12_DelayBeforeEveryFetch ==
    [][ (FetchStep /\ FetchedBefore) => delayed ]_vars

\* C13: once the first page of a call has been extracted, a pagination fetch
\* that is blocked, gets a status other than 200 or raises an exception makes
\* the call return exactly the records of the first page, in their order; no
\* exception leaves the call and the result collection is untouched.
C13_PaginationFailureKeepsFirstPage ==
    [][ (pc = "page" /\ FetchStep /\ lastFetch'.class # "Success")
          => /\ pc' = "return"
             /\ term' = "Done"
             /\ ret' = page_results
             /\ ret' = all_results
             /\ lastExtract' = lastExtract
             /\ all_data' = all_data ]_vars

\* The pagination fetch raised an exception that is no RequestException, and
\* the call returned the first page.
C13_Witness ==
    /\ pc = "return"
    /\ term = "Done"
    /\ lastFetch.class = OtherException
    /\ lastFetch.start > 0
    /\ ret # <<>>
    /\ ret = lastExtract

====
